---- MODULE Spec2Model ----
(***************************************************************************)
(* The clothing contrib of evennia-things (src/clothing.py): the           *)
(* ClothingHandler of one ClothedCharacter and the commands that drive it. *)
(*                                                                         *)
(* Objects are named by strings; None is Python's None.  A worn style is   *)
(* a string of which the code only reads the truth value and the length,   *)
(* so it is represented by its length, NoStyle standing for None and "".   *)
(***************************************************************************)
EXTENDS Integers, Sequences, FiniteSets, TLC

VARIABLES
    clothing_list,  \* ClothingHandler.clothing_list: the wearer's worn objects
    worn,           \* obj.db.worn of every object
    covered_by,     \* obj.db.covered_by of every object
    location,       \* obj.location of every object
    autocover       \* _CLOTHING_AUTOCOVER_TYPES as set when the module loads

vars == <<clothing_list, worn, covered_by, location, autocover>>

\* The GrowthHandler of one object (src/growables.py).
VARIABLES
    growth_stages,  \* GrowthHandler.growth_stages, in dict order
    growth_status,  \* growth_status without last_update: stage, age, next_age
    elapsed,        \* gametime.gametime() - growth_status['last_update']
    lifetime,       \* game time since the status was created
    tasks,          \* pending delay(self.delay, self.grow) tasks, by time left
    interval,       \* GrowthHandler.delay
    pre_grow,       \* what the object's at_pre_grow does at present
    grower_key      \* the object's key

growth_vars == <<growth_stages, growth_status, elapsed, lifetime, tasks,
                 interval, pre_grow, grower_key>>

\* The other handlers are not in use: no stage added, no task pending.
GrowthUnused ==
    /\ growth_stages = <<>>
    /\ growth_status = [stage |-> "None", age |-> 0, next_age |-> 0]
    /\ elapsed = 0
    /\ lifetime = 0
    /\ tasks = <<>>
    /\ interval = 0
    /\ pre_grow = "AttributeError"
    /\ grower_key = "None"

\* The Discord relay (src/discord_relay).
VARIABLES
    accounts,       \* the bot accounts: db.ev_channel and db.dc_channel of each
    script_bots,    \* DiscordRelayScript.db.bots: Discord channel id -> bot
    subscribers,    \* the bots connected to the Evennia channel
    DiscordToEv,    \* the beanstalk tube read by the relay script
    EvToDiscord,    \* the beanstalk tube read by the Discord client
    events,         \* Discord messages whose on_message has not run yet
    discord_log,    \* every message ever posted in a Discord channel
    channel_log,    \* every message ever sent to the Evennia channel
    relay_loop,     \* the Discord client's relay task: running or stopped
    posted          \* how many messages users have written so far

relay_vars == <<accounts, script_bots, subscribers, DiscordToEv, EvToDiscord,
                events, discord_log, channel_log, relay_loop, posted>>

RelayUnused ==
    /\ accounts = <<>>
    /\ script_bots = <<>>
    /\ subscribers = {}
    /\ DiscordToEv = <<>>
    /\ EvToDiscord = <<>>
    /\ events = {}
    /\ discord_log = {}
    /\ channel_log = {}
    /\ relay_loop = "running"
    /\ posted = 0

\* The FeatureHandler of one object (src/features.py).
VARIABLES
    unique,         \* FeatureHandler.unique, in dict order
    features,       \* FeatureHandler.features
    feature_attr    \* obj.attributes[feature_attr], as save() writes it

feature_vars == <<unique, features, feature_attr>>

FeaturesUnused ==
    /\ unique = <<>>
    /\ features = <<>>
    /\ feature_attr = <<>>

None == "None"
NoStyle == 0

\* The objects of the scene and the clothing tag each carries.
Items == {"socks1", "socks2", "shoes", "ring", "rock"}

tags == [o \in Items |->
            CASE o = "socks1" -> {"socks"}
              [] o = "socks2" -> {"socks"}
              [] o = "shoes"  -> {"shoes"}
              [] o = "ring"   -> {"jewelry"}
              [] o = "rock"   -> {}]

----------------------------------------------------------------------------
\* Settings.  The tables are the module's defaults.  The worn-style length,
\* the total limit and the display order are set through the settings
\* CLOTHING_WORNSTRING_MAX_LENGTH, CLOTHING_TOTAL_LIMIT and
\* CLOTHING_TYPE_ORDER to values the five objects of the scene can reach.
\* MaxStyleLen is the longest style a player types.

WORNSTRING_MAX_LENGTH == 1
MaxStyleLen == 2
Styles == 1..MaxStyleLen

CLOTHING_TYPE_ORDER == <<"jewelry", "shoes">>

CLOTHING_TYPE_LIMITS == [t \in {"hat", "gloves", "socks", "shoes"} |-> 1]

CLOTHING_TOTAL_LIMIT == 2

\* The default table of the types a type covers of itself when put on.
DEFAULT_AUTOCOVER_TYPES ==
    [t \in {"top", "bottom", "fullbody", "shoes"} |->
        CASE t = "top"      -> {"undershirt"}
          [] t = "bottom"   -> {"underpants"}
          [] t = "fullbody" -> {"undershirt", "underpants"}
          [] t = "shoes"    -> {"socks"}]

\* Tables a game can give in settings.CLOTHING_AUTOCOVER_TYPES: the default,
\* shoes that go over socks and other shoes, socks that go over socks.
AUTOCOVER_SETTINGS ==
    { DEFAULT_AUTOCOVER_TYPES,
      [t \in {"shoes"} |-> {"socks", "shoes"}],
      [t \in {"socks", "shoes"} |-> {"socks"}] }

\* The table in force.
CLOTHING_AUTOCOVER_TYPES == autocover

CLOTHING_NO_COVER_TYPES == {"jewelry"}

----------------------------------------------------------------------------
\* Lists.

Range(s) == {s[i] : i \in 1..Len(s)}

\* list.index: the first position of x in s (x is in s).
Index(s, x) == CHOOSE i \in 1..Len(s) : s[i] = x /\ \A j \in 1..(i - 1) : s[j] # x

\* list.remove: s without the first occurrence of x (x is in s).
ListRemove(s, x) ==
    LET k == Index(s, x)
    IN  SubSeq(s, 1, k - 1) \o SubSeq(s, k + 1, Len(s))

\* The registry a handler method works on.
Reg == [list |-> clothing_list, worn |-> worn, cov |-> covered_by]

\* obj.tags.get(category=...) of an object with at most one clothing tag.
tags_get(obj) == IF tags[obj] = {} THEN None ELSE CHOOSE t \in tags[obj] : TRUE

\* True in obj.tags.has(keys, category=..., return_list=True)
tags_has_any(obj, keys) == tags[obj] \cap keys # {}

----------------------------------------------------------------------------
\* ClothingHandler.

all(reg) == reg.list

visible(reg) == SelectSeq(reg.list, LAMBDA o : reg.cov[o] = None)

count_type(reg, type) ==
    Cardinality({i \in 1..Len(reg.list) : type \in tags[reg.list[i]]})

\* add without the test for an object that is already in the list.
add_always_appends(reg, obj, style, quiet) ==
    [reg      |-> [list |-> Append(reg.list, obj),
                   worn |-> [reg.worn EXCEPT ![obj] = style],
                   cov  |-> reg.cov],
     message  |-> IF quiet THEN None ELSE "puts on",
     to_cover |-> <<>>]

\* add auto-covering every worn garment of a matching type, covered or not.
add_covers_covered(reg, obj, style, quiet) ==
    LET adjust == obj \in Range(reg.list)
        list1  == IF adjust THEN reg.list ELSE Append(reg.list, obj)
        auto   == ~adjust /\ tags_has_any(obj, DOMAIN CLOTHING_AUTOCOVER_TYPES)
        atags  == UNION {CLOTHING_AUTOCOVER_TYPES[k] : k \in tags[obj]}
        hit    == IF auto
                  THEN SelectSeq(list1, LAMBDA g : tags_has_any(g, atags))
                  ELSE <<>>
    IN  [reg      |-> [list |-> list1,
                       worn |-> [reg.worn EXCEPT ![obj] = style],
                       cov  |-> [o \in Items |->
                                    IF o \in Range(hit) THEN obj ELSE reg.cov[o]]],
         message  |-> IF quiet THEN None
                      ELSE IF adjust THEN "adjusts" ELSE "puts on",
         to_cover |-> hit]

\* add auto-covering on a style adjustment as on a new add.
add_covers_on_adjust(reg, obj, style, quiet) ==
    LET adjust == obj \in Range(reg.list)
        list1  == IF adjust THEN reg.list ELSE Append(reg.list, obj)
        auto   == tags_has_any(obj, DOMAIN CLOTHING_AUTOCOVER_TYPES)
        atags  == UNION {CLOTHING_AUTOCOVER_TYPES[k] : k \in tags[obj]}
        outfit == SelectSeq(list1, LAMBDA o : reg.cov[o] = None)
        hit    == IF auto
                  THEN SelectSeq(outfit, LAMBDA g : tags_has_any(g, atags))
                  ELSE <<>>
    IN  [reg      |-> [list |-> list1,
                       worn |-> [reg.worn EXCEPT ![obj] = style],
                       cov  |-> [o \in Items |->
                                    IF o \in Range(hit) THEN obj ELSE reg.cov[o]]],
         message  |-> IF quiet THEN None
                      ELSE IF adjust THEN "adjusts" ELSE "puts on",
         to_cover |-> hit]

\* add: the registry afterwards, the message kind and the garments covered.
add(reg, obj, style, quiet) ==
    LET adjust == obj \in Range(reg.list)
        list1  == IF adjust THEN reg.list ELSE Append(reg.list, obj)
        worn1  == [reg.worn EXCEPT ![obj] = style]
        auto   == ~adjust /\ tags_has_any(obj, DOMAIN CLOTHING_AUTOCOVER_TYPES)
        atags  == UNION {CLOTHING_AUTOCOVER_TYPES[k] : k \in tags[obj]}
        outfit == SelectSeq(list1, LAMBDA o : reg.cov[o] = None)
        hit    == IF auto
                  THEN SelectSeq(outfit, LAMBDA g : tags_has_any(g, atags))
                  ELSE <<>>
        cov1   == [o \in Items |-> IF o \in Range(hit) THEN obj ELSE reg.cov[o]]
    IN  [reg      |-> [list |-> list1, worn |-> worn1, cov |-> cov1],
         message  |-> IF quiet THEN None
                      ELSE IF adjust THEN "adjusts" ELSE "puts on",
         to_cover |-> hit]

\* remove with the cascade forgotten: what the removed object covered stays
\* covered by it.
remove_no_cascade(reg, obj, quiet) ==
    IF obj \notin Range(reg.list)
    THEN [reg |-> reg, raised |-> "ValueError", message |-> None, uncovered |-> <<>>]
    ELSE [reg |-> [list |-> ListRemove(reg.list, obj),
                   worn |-> [reg.worn EXCEPT ![obj] = NoStyle],
                   cov  |-> [reg.cov EXCEPT ![obj] = None]],
          raised |-> None,
          message |-> IF quiet THEN None ELSE "removes",
          uncovered |-> <<>>]

\* remove uncovering every covered item, whatever covers it.
remove_uncovers_all(reg, obj, quiet) ==
    IF obj \notin Range(reg.list)
    THEN [reg |-> reg, raised |-> "ValueError", message |-> None, uncovered |-> <<>>]
    ELSE LET list1 == ListRemove(reg.list, obj)
         IN  [reg |-> [list |-> list1,
                       worn |-> [reg.worn EXCEPT ![obj] = NoStyle],
                       cov  |-> [o \in Items |->
                                    IF o = obj \/ o \in Range(list1)
                                    THEN None ELSE reg.cov[o]]],
              raised |-> None,
              message |-> IF quiet THEN None ELSE "removes",
              uncovered |-> SelectSeq(list1, LAMBDA t : reg.cov[t] # None)]

\* remove working on a copy of the list that is never saved back.
remove_on_copy(reg, obj, quiet) ==
    LET cov1 == [reg.cov EXCEPT ![obj] = None]
    IN  [reg |-> [list |-> reg.list,
                  worn |-> [reg.worn EXCEPT ![obj] = NoStyle],
                  cov  |-> [o \in Items |-> IF cov1[o] = obj THEN None ELSE cov1[o]]],
         raised |-> None,
         message |-> IF quiet THEN None ELSE "removes",
         uncovered |-> <<>>]

\* remove: worn and covered_by are cleared before list.remove, which raises
\* ValueError for an object that is not in the list.
remove(reg, obj, quiet) ==
    LET worn1 == [reg.worn EXCEPT ![obj] = NoStyle]
        cov1  == [reg.cov EXCEPT ![obj] = None]
    IN  IF obj \notin Range(reg.list)
        THEN [reg |-> [list |-> reg.list, worn |-> worn1, cov |-> cov1],
              raised |-> "ValueError", message |-> None, uncovered |-> <<>>]
        ELSE LET list1 == ListRemove(reg.list, obj)
                 unc   == SelectSeq(list1, LAMBDA t : cov1[t] = obj)
                 cov2  == [o \in Items |->
                              IF o \in Range(unc) THEN None ELSE cov1[o]]
             IN  [reg |-> [list |-> list1, worn |-> worn1, cov |-> cov2],
                  raised |-> None,
                  message |-> IF quiet THEN None ELSE "removes",
                  uncovered |-> unc]

\* clear: the loop over a copy of the list, one object at a time.
RECURSIVE clear_loop(_, _)
clear_loop(reg, todo) ==
    IF todo = <<>> THEN reg
    ELSE LET obj == Head(todo)
         IN  clear_loop([list |-> ListRemove(reg.list, obj),
                         worn |-> [reg.worn EXCEPT ![obj] = NoStyle],
                         cov  |-> [reg.cov EXCEPT ![obj] = None]],
                        Tail(todo))

\* clear that empties the list and leaves the objects' attributes alone.
clear_list_only(reg) == [reg EXCEPT !.list = <<>>]

clear(reg) == clear_loop(reg, reg.list)

\* can_add comparing with > where the code compares with >=.
can_add_off_by_one(reg, obj) ==
    LET clothing_type == IF tags[obj] = {} THEN None ELSE CHOOSE t \in tags[obj] : TRUE
    IN  IF clothing_type = None
        THEN [ret |-> "False", msgs |-> 1]
        ELSE IF CLOTHING_TOTAL_LIMIT # 0 /\ Len(reg.list) > CLOTHING_TOTAL_LIMIT
        THEN [ret |-> "False", msgs |-> 1]
        ELSE IF clothing_type \in DOMAIN CLOTHING_TYPE_LIMITS
                /\ count_type(reg, clothing_type) > CLOTHING_TYPE_LIMITS[clothing_type]
        THEN [ret |-> "False", msgs |-> 1]
        ELSE [ret |-> "True", msgs |-> 0]

\* can_add: the value returned and the number of messages sent to the wearer.
can_add(reg, obj) ==
    LET clothing_type == tags_get(obj)
    IN  IF clothing_type = None
        THEN [ret |-> "False", msgs |-> 1]
        ELSE IF CLOTHING_TOTAL_LIMIT # 0 /\ Len(reg.list) >= CLOTHING_TOTAL_LIMIT
        THEN [ret |-> "False", msgs |-> 1]
        ELSE IF clothing_type \in DOMAIN CLOTHING_TYPE_LIMITS
                /\ count_type(reg, clothing_type) >= CLOTHING_TYPE_LIMITS[clothing_type]
        THEN [ret |-> "False", msgs |-> 1]
        ELSE [ret |-> "True", msgs |-> 0]

\* can_remove testing what the object covers instead of what covers it.
can_remove_backwards(reg, obj) ==
    IF obj \notin Range(reg.list)
    THEN [ret |-> "False", msgs |-> 1]
    ELSE IF \E o \in Range(reg.list) : reg.cov[o] = obj
    THEN [ret |-> "False", msgs |-> 1]
    ELSE [ret |-> "True", msgs |-> 0]

\* can_remove without the test that the object is covered.
can_remove_ignores_cover(reg, obj) ==
    IF obj \notin Range(reg.list)
    THEN [ret |-> "False", msgs |-> 1]
    ELSE [ret |-> "True", msgs |-> 0]

can_remove(reg, obj) ==
    IF obj \notin Range(reg.list)
    THEN [ret |-> "False", msgs |-> 1]
    ELSE IF reg.cov[obj] # None
    THEN [ret |-> "False", msgs |-> 1]
    ELSE [ret |-> "True", msgs |-> 0]

\* can_cover without the test that cover_with is itself covered.
can_cover_any_layer(reg, to_cover, cover_with) ==
    IF reg.cov[to_cover] # None
    THEN [ret |-> "NameError", msgs |-> 0]
    ELSE IF tags[cover_with] = {}
    THEN [ret |-> "NameError", msgs |-> 0]
    ELSE IF tags_has_any(cover_with, CLOTHING_NO_COVER_TYPES)
    THEN [ret |-> "False", msgs |-> 1]
    ELSE IF to_cover = cover_with
    THEN [ret |-> "False", msgs |-> 1]
    ELSE [ret |-> "True", msgs |-> 0]

\* can_cover: `caller` is not a name of the method's scope and the handler has
\* no attribute `caller`, so three of its branches raise before they return.
can_cover(reg, to_cover, cover_with) ==
    IF reg.cov[to_cover] # None
    THEN [ret |-> "NameError", msgs |-> 0]
    ELSE IF tags[cover_with] = {}
    THEN [ret |-> "NameError", msgs |-> 0]
    ELSE IF tags_has_any(cover_with, CLOTHING_NO_COVER_TYPES)
    THEN [ret |-> "False", msgs |-> 1]
    ELSE IF to_cover = cover_with
    THEN [ret |-> "False", msgs |-> 1]
    ELSE IF reg.cov[cover_with] # None
    THEN [ret |-> "AttributeError", msgs |-> 0]
    ELSE [ret |-> "True", msgs |-> 0]

\* The objects' descriptions and typeclasses.  The ring is a plain
\* DefaultObject, which has no get_worn_desc; both pairs of socks read alike.
desc == [o \in Items |->
            CASE o \in {"socks1", "socks2"} -> "A pair of socks."
              [] o = "shoes" -> "A pair of shoes."
              [] o = "ring"  -> "A normal ring."
              [] o = "rock"  -> "A rock."]

typeclass == [o \in Items |->
                IF o \in {"ring", "rock"} THEN "DefaultObject" ELSE "ContribClothing"]

\* The description in lower case without its full stop, followed by the worn
\* style when there is one.
get_worn_desc(obj, style) ==
    [text  |-> CASE desc[obj] = "A pair of socks." -> "a pair of socks"
                 [] desc[obj] = "A pair of shoes." -> "a pair of shoes"
                 [] desc[obj] = "A normal ring." -> "a normal ring"
                 [] desc[obj] = "A rock." -> "a rock",
     style |-> style]

\* get_worn_desc, or the object's key with an article when the object has no
\* such method.
appearance(reg, obj) ==
    IF typeclass[obj] = "ContribClothing"
    THEN get_worn_desc(obj, reg.worn[obj])
    ELSE [text |-> obj, style |-> NoStyle]

\* obj_dict[type]: the visible objects of one type, in list order.
obj_dict(reg, type) == SelectSeq(visible(reg), LAMBDA o : tags_get(o) = type)

\* The visible objects whose type is not in the order list.
extra(reg) ==
    SelectSeq(visible(reg), LAMBDA o : tags_get(o) \notin Range(CLOTHING_TYPE_ORDER))

RECURSIVE obj_list_loop(_, _)
obj_list_loop(reg, k) ==
    IF k = 0 THEN <<>>
    ELSE obj_list_loop(reg, k - 1) \o obj_dict(reg, CLOTHING_TYPE_ORDER[k])

\* The order list read backwards.
obj_list_reversed(reg, sorted) ==
    IF sorted /\ CLOTHING_TYPE_ORDER # <<>>
    THEN LET n == Len(CLOTHING_TYPE_ORDER)
             rev[k \in 0..n] ==
                 IF k = 0 THEN <<>>
                 ELSE rev[k - 1] \o obj_dict(reg, CLOTHING_TYPE_ORDER[n + 1 - k])
         IN  rev[n] \o extra(reg)
    ELSE visible(reg)

\* The unordered objects put first.
obj_list_extra_first(reg, sorted) ==
    IF sorted /\ CLOTHING_TYPE_ORDER # <<>>
    THEN extra(reg) \o obj_list_loop(reg, Len(CLOTHING_TYPE_ORDER))
    ELSE visible(reg)

obj_list(reg, sorted) ==
    IF sorted /\ CLOTHING_TYPE_ORDER # <<>>
    THEN obj_list_loop(reg, Len(CLOTHING_TYPE_ORDER)) \o extra(reg)
    ELSE visible(reg)

\* get_outfit over every worn object, covered or not.
get_outfit_all(reg, sorted) ==
    [reg |-> reg,
     appearance_list |-> [i \in 1..Len(reg.list) |-> appearance(reg, reg.list[i])]]

get_outfit(reg, sorted) ==
    LET ol == obj_list(reg, sorted)
    IN  [reg |-> reg,
         appearance_list |-> [i \in 1..Len(ol) |-> appearance(reg, ol[i])]]

----------------------------------------------------------------------------
\* Commands.  Each func is the command's body run on a registry and the
\* objects' locations: the registry and locations afterwards, how the body
\* ended (ok, rejected, or the exception it raised), and the number of
\* messages sent to the caller (msgs) and to the caller's location (room).
\* An argument of None is an argument the player left out.

Out(reg, loc, ret, msgs, room) ==
    [reg |-> reg, loc |-> loc, ret |-> ret, msgs |-> msgs, room |-> room]

Rejected(reg, loc, msgs) == Out(reg, loc, "rejected", msgs, 0)

\* caller.search(name, candidates=caller.contents): the object, or None after
\* telling the caller that nothing was found.
search(loc, obj) == IF loc[obj] = "wearer" THEN obj ELSE None

CmdWear_func(reg, loc, obj, rhs) ==
    IF obj = None THEN Rejected(reg, loc, 1)
    ELSE IF search(loc, obj) = None THEN Rejected(reg, loc, 1)
    ELSE IF obj \in Range(all(reg)) /\ rhs = NoStyle THEN Rejected(reg, loc, 1)
    ELSE IF rhs # NoStyle /\ WORNSTRING_MAX_LENGTH # 0
            /\ rhs > WORNSTRING_MAX_LENGTH
    THEN Rejected(reg, loc, 1)
    ELSE LET style == IF WORNSTRING_MAX_LENGTH = 0 THEN NoStyle ELSE rhs
             ok    == can_add(reg, obj)
         IN  IF ok.ret = "True"
             THEN Out(add(reg, obj, style, FALSE).reg, loc, "ok", 0, 1)
             ELSE Rejected(reg, loc, ok.msgs)

CmdRemove_func(reg, loc, obj) ==
    IF obj = None THEN Rejected(reg, loc, 1)
    ELSE IF search(loc, obj) = None THEN Rejected(reg, loc, 1)
    ELSE LET ok == can_remove(reg, obj)
         IN  IF ok.ret = "True"
             THEN Out(remove(reg, obj, FALSE).reg, loc, "ok", 0, 1)
             ELSE Rejected(reg, loc, ok.msgs)

\* cover that never puts cover_with on.
CmdCover_no_wear(reg, loc, to_cover, cover_with) ==
    IF to_cover = None \/ cover_with = None THEN Rejected(reg, loc, 1)
    ELSE IF search(loc, to_cover) = None THEN Rejected(reg, loc, 1)
    ELSE IF search(loc, cover_with) = None THEN Rejected(reg, loc, 1)
    ELSE IF to_cover \notin Range(all(reg)) THEN Rejected(reg, loc, 1)
    ELSE LET ok == can_cover(reg, to_cover, cover_with)
         IN  IF ok.ret = "True"
             THEN Out([reg EXCEPT !.cov[to_cover] = cover_with], loc, "ok", 0, 1)
             ELSE IF ok.ret = "False"
             THEN Rejected(reg, loc, ok.msgs)
             ELSE Out(reg, loc, ok.ret, ok.msgs, 0)

CmdCover_func(reg, loc, to_cover, cover_with) ==
    IF to_cover = None \/ cover_with = None THEN Rejected(reg, loc, 1)
    ELSE IF search(loc, to_cover) = None THEN Rejected(reg, loc, 1)
    ELSE IF search(loc, cover_with) = None THEN Rejected(reg, loc, 1)
    ELSE IF to_cover \notin Range(all(reg)) THEN Rejected(reg, loc, 1)
    ELSE LET ok == can_cover(reg, to_cover, cover_with)
         IN  IF ok.ret = "True"
             THEN LET reg1 == [reg EXCEPT !.cov[to_cover] = cover_with]
                      reg2 == IF cover_with \notin Range(all(reg1))
                              THEN add(reg1, cover_with, NoStyle, TRUE).reg
                              ELSE reg1
                  IN  Out(reg2, loc, "ok", 0, 1)
             ELSE IF ok.ret = "False"
             THEN Rejected(reg, loc, ok.msgs)
             ELSE Out(reg, loc, ok.ret, ok.msgs, 0)

\* uncover without the test that the covering item is itself covered.
CmdUncover_any_layer(reg, loc, obj) ==
    IF obj = None THEN Rejected(reg, loc, 1)
    ELSE IF search(loc, obj) = None THEN Rejected(reg, loc, 1)
    ELSE IF obj \notin Range(all(reg)) THEN Rejected(reg, loc, 1)
    ELSE IF reg.cov[obj] = None THEN Rejected(reg, loc, 1)
    ELSE Out([reg EXCEPT !.cov[obj] = None], loc, "ok", 0, 1)

CmdUncover_func(reg, loc, obj) ==
    IF obj = None THEN Rejected(reg, loc, 1)
    ELSE IF search(loc, obj) = None THEN Rejected(reg, loc, 1)
    ELSE IF obj \notin Range(all(reg)) THEN Rejected(reg, loc, 1)
    ELSE IF reg.cov[obj] = None THEN Rejected(reg, loc, 1)
    ELSE IF reg.cov[reg.cov[obj]] # None THEN Rejected(reg, loc, 1)
    ELSE Out([reg EXCEPT !.cov[obj] = None], loc, "ok", 0, 1)

CmdDrop_func(reg, loc, obj) ==
    IF obj = None THEN Rejected(reg, loc, 1)
    ELSE IF search(loc, obj) = None THEN Rejected(reg, loc, 1)
    ELSE LET isworn == obj \in Range(all(reg))
             ok     == can_remove(reg, obj)
             loc1   == [loc EXCEPT ![obj] = "room"]
         IN  IF isworn /\ ok.ret # "True" THEN Rejected(reg, loc, ok.msgs)
             ELSE IF isworn
             THEN Out(remove(reg, obj, FALSE).reg, loc1, "ok", 1, 2)
             ELSE Out(reg, loc1, "ok", 1, 1)

CmdGive_func(reg, loc, obj, target) ==
    IF obj = None \/ target = None THEN Rejected(reg, loc, 1)
    ELSE IF search(loc, obj) = None THEN Rejected(reg, loc, 1)
    ELSE IF target = "nobody" THEN Rejected(reg, loc, 1)
    ELSE IF target = "wearer" THEN Rejected(reg, loc, 1)
    ELSE IF loc[obj] # "wearer" THEN Rejected(reg, loc, 1)
    ELSE LET isworn == obj \in Range(all(reg))
             ok     == can_remove(reg, obj)
             loc1   == [loc EXCEPT ![obj] = target]
         IN  IF isworn /\ ok.ret # "True" THEN Rejected(reg, loc, ok.msgs)
             ELSE IF isworn
             THEN Out(remove(reg, obj, FALSE).reg, loc1, "ok", 1, 1)
             ELSE Out(reg, loc1, "ok", 1, 0)

----------------------------------------------------------------------------
\* The state machine of the commands a player types, and of clear().

Init ==
    /\ clothing_list = <<>>
    /\ worn = [o \in Items |-> NoStyle]
    /\ covered_by = [o \in Items |-> None]
    /\ location = [o \in Items |-> "wearer"]
    /\ autocover = DEFAULT_AUTOCOVER_TYPES
    /\ GrowthUnused
    /\ RelayUnused
    /\ FeaturesUnused

\* A command has run: its outcome becomes the state.
Ran(out) ==
    /\ clothing_list' = out.reg.list
    /\ worn' = out.reg.worn
    /\ covered_by' = out.reg.cov
    /\ location' = out.loc
    /\ UNCHANGED autocover
    /\ UNCHANGED <<growth_vars, relay_vars, feature_vars>>

\* A handler method has run on the registry.
Returned(reg) ==
    /\ clothing_list' = reg.list
    /\ worn' = reg.worn
    /\ covered_by' = reg.cov
    /\ UNCHANGED <<location, autocover>>
    /\ UNCHANGED <<growth_vars, relay_vars, feature_vars>>

Args == Items \cup {None}
Rhs == {NoStyle} \cup Styles
Targets == {"friend", "wearer", "nobody", None}

CmdWear ==
    \E obj \in Args, rhs \in Rhs : Ran(CmdWear_func(Reg, location, obj, rhs))

CmdRemove ==
    \E obj \in Args : Ran(CmdRemove_func(Reg, location, obj))

CmdCover ==
    \E to_cover \in Args, cover_with \in Args :
        Ran(CmdCover_func(Reg, location, to_cover, cover_with))

CmdUncover ==
    \E obj \in Args : Ran(CmdUncover_func(Reg, location, obj))

CmdDrop ==
    \E obj \in Args : Ran(CmdDrop_func(Reg, location, obj))

CmdGive ==
    \E obj \in Args, target \in Targets :
        Ran(CmdGive_func(Reg, location, obj, target))

Clear == Returned(clear(Reg))

Next ==
    \/ CmdWear
    \/ CmdRemove
    \/ CmdCover
    \/ CmdUncover
    \/ CmdDrop
    \/ CmdGive
    \/ Clear

Spec == Init /\ [][Next]_vars

\* The same commands under any of the auto-cover tables.
InitSettings ==
    /\ clothing_list = <<>>
    /\ worn = [o \in Items |-> NoStyle]
    /\ covered_by = [o \in Items |-> None]
    /\ location = [o \in Items |-> "wearer"]
    /\ autocover \in AUTOCOVER_SETTINGS
    /\ GrowthUnused
    /\ RelayUnused
    /\ FeaturesUnused

SpecSettings == InitSettings /\ [][Next]_vars

\* A garment is an ordinary object: code other than the clothing commands
\* can move_to it out of the wearer.  ContribClothing defines no move hook,
\* so the registry is not told.
Destinations == {"room"}

Relocate ==
    \E obj \in Items, destination \in Destinations :
        /\ location[obj] = "wearer"
        /\ location' = [location EXCEPT ![obj] = destination]
        /\ UNCHANGED <<clothing_list, worn, covered_by, autocover>>
        /\ UNCHANGED <<growth_vars, relay_vars, feature_vars>>

NextRelocate ==
    \/ Next
    \/ Relocate

SpecRelocate == Init /\ [][NextRelocate]_vars

----------------------------------------------------------------------------
\* GrowthHandler (src/growables.py).  Game time is counted in whole units and
\* a delayed task fires when as much game time has passed as its delay.  The
\* code reads an age or a time span only by comparing it with a stage age or
\* with the delay, so the clocks stop counting at MaxClock, which is above
\* every stage age and every delay.

MaxAge == 2
MaxDelay == 1
MaxTasks == 2
MaxClock == (IF MaxAge > MaxDelay THEN MaxAge ELSE MaxDelay) + 1

StageNames == {"sprout", "young", "grown"}
Ages == 0..MaxAge
Intervals == 1..MaxDelay
PreGrowResults == {"AttributeError", "True", "False"}

Clock(t) == IF t > MaxClock THEN MaxClock ELSE t

\* The handler and what it reads and writes, as one value; applied tells
\* whether the last grow went on to apply a stage (lines 136-175).
Growth ==
    [stages |-> growth_stages, status |-> growth_status, elapsed |-> elapsed,
     tasks |-> tasks, delay |-> interval, pre |-> pre_grow, key |-> grower_key,
     applied |-> FALSE]

\* delay(self.delay, self.grow)
schedule(g) == [g EXCEPT !.tasks = Append(@, g.delay)]

\* The loop of grow over the stages in dict order, from stage i on.
RECURSIVE stage_loop(_, _, _, _, _, _)
stage_loop(stages, i, current_age, base_age, new_stage, next_age) ==
    IF i > Len(stages)
    THEN [new_stage |-> new_stage, next_age |-> next_age]
    ELSE IF current_age < stages[i].age
    THEN [new_stage |-> new_stage, next_age |-> stages[i].age]
    ELSE IF base_age <= stages[i].age
    THEN stage_loop(stages, i + 1, current_age, stages[i].age, stages[i].stage, next_age)
    ELSE stage_loop(stages, i + 1, current_age, base_age, new_stage, next_age)

\* The stage's entry in the dict.
stage_dict(stages, stage) ==
    stages[CHOOSE i \in 1..Len(stages) : stages[i].stage = stage]

\* grow that takes the first stage whose age has been reached.
grow_first_reached(g, force) ==
    IF g.elapsed < g.delay /\ ~force THEN g
    ELSE IF Len(g.stages) <= 0 THEN schedule(g)
    ELSE IF g.pre = "False" THEN schedule(g)
    ELSE
    LET current_age == Clock(g.elapsed + g.status.age)
        last_stage  == g.stages[Len(g.stages)].stage
        reached     == {i \in 1..Len(g.stages) : g.stages[i].age <= current_age}
        later       == {i \in 1..Len(g.stages) : g.stages[i].age > current_age}
    IN  IF g.status.stage = last_stage /\ ~force THEN g
        ELSE IF current_age < g.status.next_age /\ ~force
        THEN schedule([g EXCEPT !.status.age = current_age])
        ELSE IF reached = {} THEN schedule(g)
        ELSE LET first == CHOOSE i \in reached : \A j \in reached : i <= j
             IN  [schedule(g) EXCEPT
                    !.key = g.stages[first].key,
                    !.elapsed = 0,
                    !.applied = TRUE,
                    !.status = [stage |-> g.stages[first].stage,
                                age |-> current_age,
                                next_age |-> IF later = {} THEN g.status.next_age
                                             ELSE g.stages[CHOOSE i \in later :
                                                      \A j \in later : i <= j].age]]

\* grow that schedules nothing.
grow_never_schedules(g, force) ==
    IF g.elapsed < g.delay /\ ~force THEN g
    ELSE IF Len(g.stages) <= 0 THEN g
    ELSE IF g.pre = "False" THEN g
    ELSE
    LET current_age == Clock(g.elapsed + g.status.age)
        last_stage  == g.stages[Len(g.stages)].stage
        found == stage_loop(g.stages, 1, current_age, 0, None, g.status.next_age)
    IN  IF g.status.stage = last_stage /\ ~force THEN g
        ELSE IF current_age < g.status.next_age /\ ~force
        THEN [g EXCEPT !.status.age = current_age]
        ELSE IF found.new_stage = None THEN g
        ELSE [g EXCEPT
                !.key = IF stage_dict(g.stages, found.new_stage).key # None
                        THEN stage_dict(g.stages, found.new_stage).key ELSE g.key,
                !.elapsed = 0,
                !.applied = TRUE,
                !.status = [stage |-> found.new_stage, age |-> current_age,
                            next_age |-> found.next_age]]

grow(g, force) ==
    IF g.elapsed < g.delay /\ ~force THEN g
    ELSE IF Len(g.stages) <= 0 THEN schedule(g)
    ELSE IF g.pre = "False" THEN schedule(g)
    ELSE
    LET current_age == Clock(g.elapsed + g.status.age)
        last_stage  == g.stages[Len(g.stages)].stage
        found == stage_loop(g.stages, 1, current_age, 0, None, g.status.next_age)
    IN  IF g.status.stage = last_stage /\ ~force THEN g
        ELSE IF current_age < g.status.next_age /\ ~force
        THEN schedule([g EXCEPT !.status.age = current_age])
        ELSE IF found.new_stage = None THEN schedule(g)
        ELSE [schedule(g) EXCEPT
                !.key = IF stage_dict(g.stages, found.new_stage).key # None
                        THEN stage_dict(g.stages, found.new_stage).key ELSE g.key,
                !.elapsed = 0,
                !.applied = TRUE,
                !.status = [stage |-> found.new_stage, age |-> current_age,
                            next_age |-> found.next_age]]

\* sorted(stages.items(), key=age): a stable sort of the first k entries.
RECURSIVE sorted_by_age(_, _)
sorted_by_age(stages, k) ==
    IF k = 0 THEN <<>>
    ELSE LET done == sorted_by_age(stages, k - 1)
             n == Cardinality({i \in 1..Len(done) : done[i].age <= stages[k].age})
         IN  SubSeq(done, 1, n) \o <<stages[k]>> \o SubSeq(done, n + 1, Len(done))

\* add that leaves the stages in the order they were added.
GrowthHandler_add_unsorted(g, stage, age, key, force_add) ==
    LET has == \E i \in 1..Len(g.stages) : g.stages[i].stage = stage
        entry == [stage |-> stage, age |-> age, key |-> key]
    IN  IF has /\ ~force_add THEN g
        ELSE grow([g EXCEPT !.stages =
                       IF has
                       THEN [i \in 1..Len(g.stages) |->
                               IF g.stages[i].stage = stage THEN entry ELSE g.stages[i]]
                       ELSE Append(g.stages, entry)], TRUE)

GrowthHandler_add(g, stage, age, key, force_add) ==
    LET has == \E i \in 1..Len(g.stages) : g.stages[i].stage = stage
        entry == [stage |-> stage, age |-> age, key |-> key]
        stages == IF has
                  THEN [i \in 1..Len(g.stages) |->
                          IF g.stages[i].stage = stage THEN entry ELSE g.stages[i]]
                  ELSE Append(g.stages, entry)
    IN  IF has /\ ~force_add THEN g
        ELSE grow([g EXCEPT !.stages = sorted_by_age(stages, Len(stages))], TRUE)

GrowthHandler_remove(g, stage) ==
    LET popped == \E i \in 1..Len(g.stages) : g.stages[i].stage = stage
    IN  IF popped
        THEN grow([g EXCEPT !.stages = SelectSeq(g.stages, LAMBDA e : e.stage # stage)],
                  TRUE)
        ELSE g

\* __init__ on an object without growth attributes.
GrowthHandler_init(delay, pre) ==
    grow([stages |-> <<>>,
          status |-> [stage |-> None, age |-> 0, next_age |-> 0],
          elapsed |-> 0, tasks |-> <<>>, delay |-> delay, pre |-> pre,
          key |-> None, applied |-> FALSE], FALSE)

\* The handler's state after a call, the clocks as they were.
GrowthReturned(g) ==
    /\ growth_stages' = g.stages
    /\ growth_status' = g.status
    /\ elapsed' = g.elapsed
    /\ tasks' = g.tasks
    /\ grower_key' = g.key
    /\ UNCHANGED <<lifetime, interval, pre_grow, vars, relay_vars, feature_vars>>

InitGrowth ==
    /\ clothing_list = <<>>
    /\ worn = [o \in Items |-> NoStyle]
    /\ covered_by = [o \in Items |-> None]
    /\ location = [o \in Items |-> "wearer"]
    /\ autocover = DEFAULT_AUTOCOVER_TYPES
    /\ RelayUnused
    /\ FeaturesUnused
    /\ interval \in Intervals
    /\ pre_grow \in PreGrowResults
    /\ lifetime = 0
    /\ LET g == GrowthHandler_init(interval, pre_grow)
       IN  /\ growth_stages = g.stages
           /\ growth_status = g.status
           /\ elapsed = g.elapsed
           /\ tasks = g.tasks
           /\ grower_key = g.key

\* self.add(stage, age, key=stage)
AddStage ==
    \E stage \in StageNames, age \in Ages, force_add \in BOOLEAN :
        /\ Len(tasks) < MaxTasks
        /\ GrowthReturned(GrowthHandler_add(Growth, stage, age, stage, force_add))

RemoveStage ==
    \E stage \in StageNames :
        /\ Len(tasks) < MaxTasks
        /\ GrowthReturned(GrowthHandler_remove(Growth, stage))

Grow ==
    \E force \in BOOLEAN :
        /\ Len(tasks) < MaxTasks
        /\ GrowthReturned(grow(Growth, force))

\* A delayed task is due: it leaves the pending tasks and calls grow().
Fire ==
    /\ tasks # <<>>
    /\ Head(tasks) = 0
    /\ GrowthReturned(grow([Growth EXCEPT !.tasks = Tail(tasks)], FALSE))

\* A unit of game time passes while no task is due.
Tick ==
    /\ IF tasks = <<>> THEN TRUE ELSE Head(tasks) > 0
    /\ elapsed' = Clock(elapsed + 1)
    /\ lifetime' = Clock(lifetime + 1)
    /\ tasks' = [i \in 1..Len(tasks) |-> tasks[i] - 1]
    /\ UNCHANGED <<growth_stages, growth_status, interval, pre_grow, grower_key,
                   vars, relay_vars, feature_vars>>

\* The object's condition changes, and with it the answer of at_pre_grow.
PreGrowChanges ==
    /\ pre_grow # "AttributeError"
    /\ pre_grow' = IF pre_grow = "True" THEN "False" ELSE "True"
    /\ UNCHANGED <<growth_stages, growth_status, elapsed, lifetime, tasks,
                   interval, grower_key, vars, relay_vars, feature_vars>>

NextGrowth ==
    \/ AddStage
    \/ RemoveStage
    \/ Grow
    \/ Fire
    \/ Tick
    \/ PreGrowChanges

SpecGrowth == InitGrowth /\ [][NextGrowth]_growth_vars

\* Game time keeps advancing and a task that is due is run.
SpecGrowthFair ==
    /\ InitGrowth
    /\ [][NextGrowth]_growth_vars
    /\ WF_growth_vars(Tick)
    /\ WF_growth_vars(Fire)

----------------------------------------------------------------------------
\* The Discord relay (src/discord_relay): the discord2chan command, the bots,
\* the relay script and the Discord client, joined by two beanstalk tubes.
\* A text is the number of the message a user wrote and the formats wrapped
\* around it since, innermost first.

MaxPosts == 2

BotNames == {"DC-one", "DC-two"}
ChannelIds == {0, 1}          \* what can be typed as <discord channel ID>
DiscordChannels == {1}        \* the channels of the Discord server
EvChannels == {"public"}      \* the Evennia channels that exist
EvChannelArgs == {"public", "nochan"}
NoId == -1                    \* db.dc_channel of a bot never initialized

FORMAT_TO_EVENNIA(user, message) ==
    [message EXCEPT !.wraps = Append(@, <<"[|w{user}|n] {message}", user>>)]

FORMAT_TO_DISCORD(user, message) ==
    [message EXCEPT !.wraps = Append(@, <<"**{user}**: {message}", user>>)]

\* greenclient.put(body)
put(tube, body) == Append(tube, [body |-> body, reserved |-> FALSE])

Ready(tube) == {i \in 1..Len(tube) : ~tube[i].reserved}

\* greenclient.peek_ready(): the place of the first ready job (there is one)
peek_ready(tube) == CHOOSE i \in Ready(tube) : \A j \in Ready(tube) : i <= j

\* peek_ready, reserve(job.id) and delete(job) on the used tube.  reserve
\* takes its argument as a timeout and reserves the next ready job of either
\* watched tube; the peeked job is the one deleted.  Which tube the reserved
\* job is from is theirs; a job reserved and not deleted stays reserved.
Delete(tube, i) == SubSeq(tube, 1, i - 1) \o SubSeq(tube, i + 1, Len(tube))

Reserve(tube) == [tube EXCEPT ![peek_ready(tube)].reserved = TRUE]

\* The tubes a reserve can land on.
Watched(used, other) ==
    {"used"} \cup (IF Ready(other) # {} THEN {"other"} ELSE {})

\* DiscordBot.at_pre_channel_msg
at_pre_channel_msg(message, senders) ==
    IF senders # <<>>
    THEN FORMAT_TO_DISCORD(senders, message)
    ELSE message

\* channel_msg without the test for messages of other relays.
channel_msg_any_relay(acc, bot, message, senders, relay) ==
    IF \E i \in 1..Len(senders) : senders[i] = bot THEN <<>>
    ELSE <<<<acc[bot].dc_channel, message>>>>

\* DiscordBot.channel_msg: the bodies it puts on EvToDiscord.
channel_msg(acc, bot, message, senders, relay) ==
    IF \E i \in 1..Len(senders) : senders[i] = bot THEN <<>>
    ELSE IF relay THEN <<>>
    ELSE <<<<acc[bot].dc_channel, message>>>>

\* channel.msg(message, senders=..., relay=...): each subscribed bot formats
\* the message and gets it through channel_msg.
RECURSIVE channel_puts(_, _, _, _, _)
channel_puts(acc, bots, message, senders, relay) ==
    IF bots = {} THEN <<>>
    ELSE LET bot == CHOOSE b \in bots : TRUE
         IN  channel_msg(acc, bot, at_pre_channel_msg(message, senders), senders, relay)
             \o channel_puts(acc, bots \ {bot}, message, senders, relay)

RECURSIVE put_all(_, _)
put_all(tube, bodies) ==
    IF bodies = <<>> THEN tube
    ELSE put_all(put(tube, Head(bodies)), Tail(bodies))

\* on_message without the test for the client's own messages.
on_message_own_too(tube, message) ==
    put(tube, [txt |-> message.content, user |-> message.author])

\* EvenniaRelay.on_message: the DiscordToEv tube afterwards.
on_message(tube, message) ==
    IF message.author = "client" THEN tube
    ELSE put(tube, [txt |-> message.content, user |-> message.author])

\* discord2chan has linked Discord channel c to the Evennia channel.
Linked(c) ==
    IF c \in DOMAIN script_bots
    THEN accounts[script_bots[c]].ev_channel = "public"
    ELSE FALSE

InitRelay ==
    /\ clothing_list = <<>>
    /\ worn = [o \in Items |-> NoStyle]
    /\ covered_by = [o \in Items |-> None]
    /\ location = [o \in Items |-> "wearer"]
    /\ autocover = DEFAULT_AUTOCOVER_TYPES
    /\ GrowthUnused
    /\ FeaturesUnused
    /\ RelayUnused

RelayFrame == UNCHANGED <<vars, growth_vars, feature_vars>>

\* discord2chan <evennia channel> = <discord channel ID>,<botname>
CmdDiscord2Chan ==
    /\ \E channel \in EvChannelArgs, dc_chan_id \in ChannelIds, botname \in BotNames :
           LET created == IF botname \in DOMAIN accounts THEN accounts
                          ELSE [b \in DOMAIN accounts \cup {botname} |->
                                  IF b = botname
                                  THEN [ev_channel |-> None, dc_channel |-> NoId]
                                  ELSE accounts[b]]
           IN  IF dc_chan_id \in DOMAIN script_bots
               THEN \* add_bot returns False
                    /\ accounts' = created
                    /\ UNCHANGED <<script_bots, subscribers>>
               ELSE /\ script_bots' = [c \in DOMAIN script_bots \cup {dc_chan_id} |->
                                         IF c = dc_chan_id THEN botname ELSE script_bots[c]]
                    /\ IF channel \in EvChannels
                       THEN /\ subscribers' = subscribers \cup {botname}
                            /\ accounts' = [created EXCEPT ![botname] =
                                              [ev_channel |-> channel, dc_channel |-> dc_chan_id]]
                       ELSE \* initialize raises RuntimeError
                            /\ accounts' = created
                            /\ UNCHANGED subscribers
    /\ UNCHANGED <<DiscordToEv, EvToDiscord, events, discord_log, channel_log,
                   relay_loop, posted>>
    /\ RelayFrame

\* discord2chan/delete <botname>
CmdDiscord2ChanDelete ==
    /\ \E botname \in BotNames :
           /\ botname \in DOMAIN accounts
           /\ script_bots' = [c \in {d \in DOMAIN script_bots : script_bots[d] # botname} |->
                                script_bots[c]]
           /\ accounts' = [b \in DOMAIN accounts \ {botname} |-> accounts[b]]
           /\ subscribers' = subscribers \ {botname}
    /\ UNCHANGED <<DiscordToEv, EvToDiscord, events, discord_log, channel_log,
                   relay_loop, posted>>
    /\ RelayFrame

\* A user writes a message in a Discord channel.  The message remembers
\* whether its channel was linked when it was written.
DiscordUserPosts ==
    /\ \E c \in DiscordChannels :
           LET message == [channel |-> c, author |-> "user",
                           content |-> [id |-> posted + 1, wraps |-> <<>>],
                           linked |-> Linked(c)]
           IN  /\ posted < MaxPosts
               /\ posted' = posted + 1
               /\ discord_log' = discord_log \cup {message}
               /\ events' = events \cup {message}
    /\ UNCHANGED <<accounts, script_bots, subscribers, DiscordToEv, EvToDiscord,
                   channel_log, relay_loop>>
    /\ RelayFrame

\* The Discord client is told of a message.
OnMessage ==
    /\ \E message \in events :
           /\ events' = events \ {message}
           /\ DiscordToEv' = on_message(DiscordToEv, message)
    /\ UNCHANGED <<accounts, script_bots, subscribers, EvToDiscord, discord_log,
                   channel_log, relay_loop, posted>>
    /\ RelayFrame

\* A player writes a message in the Evennia channel.
PlayerPosts ==
    /\ LET message == [id |-> posted + 1, wraps |-> <<>>]
           senders == <<"player">>
       IN  /\ posted < MaxPosts
           /\ posted' = posted + 1
           /\ channel_log' = channel_log \cup
                  {[message |-> message, senders |-> senders, relay |-> FALSE]}
           /\ EvToDiscord' = put_all(EvToDiscord,
                  channel_puts(accounts, subscribers, message, senders, FALSE))
    /\ UNCHANGED <<accounts, script_bots, subscribers, DiscordToEv, events,
                   discord_log, relay_loop>>
    /\ RelayFrame

\* DiscordRelayScript.at_repeat with a job ready in DiscordToEv.  The job has
\* no "channel" entry, so the bot looked up is the one of channel 0.
AtRepeat ==
    /\ Ready(DiscordToEv) # {}
    /\ \E landed \in Watched(DiscordToEv, EvToDiscord) :
        LET i == peek_ready(DiscordToEv)
            get_msg == DiscordToEv[i].body
            dc_chan == 0
            bot == IF dc_chan \in DOMAIN script_bots THEN script_bots[dc_chan] ELSE None
            text == FORMAT_TO_EVENNIA(get_msg.user, get_msg.txt)
            senders == <<bot>>
            delivered == IF bot = None THEN FALSE ELSE accounts[bot].ev_channel # None
            after == IF landed = "other" THEN Reserve(EvToDiscord) ELSE EvToDiscord
        IN  /\ DiscordToEv' = Delete(DiscordToEv, i)
            /\ IF delivered
               THEN /\ channel_log' = channel_log \cup
                          {[message |-> text, senders |-> senders, relay |-> TRUE]}
                    /\ EvToDiscord' = put_all(after,
                          channel_puts(accounts, subscribers, text, senders, TRUE))
               ELSE /\ EvToDiscord' = after
                    /\ UNCHANGED channel_log
    /\ UNCHANGED <<accounts, script_bots, subscribers, events, discord_log,
                   relay_loop, posted>>
    /\ RelayFrame

\* EvenniaRelay.relay with a job ready in EvToDiscord.  A channel id the
\* client does not know gives None, channel.send fails and the loop ends.
Relay ==
    /\ relay_loop = "running"
    /\ Ready(EvToDiscord) # {}
    /\ \E landed \in Watched(EvToDiscord, DiscordToEv) :
        LET i == peek_ready(EvToDiscord)
            channel_id == EvToDiscord[i].body[1]
            content == EvToDiscord[i].body[2]
            message == [channel |-> channel_id, author |-> "client",
                        content |-> content, linked |-> Linked(channel_id)]
        IN  /\ EvToDiscord' = Delete(EvToDiscord, i)
            /\ DiscordToEv' = IF landed = "other" THEN Reserve(DiscordToEv) ELSE DiscordToEv
            /\ IF channel_id \in DiscordChannels
               THEN /\ discord_log' = discord_log \cup {message}
                    /\ events' = events \cup {message}
                    /\ UNCHANGED relay_loop
               ELSE /\ relay_loop' = "stopped"
                    /\ UNCHANGED <<discord_log, events>>
    /\ UNCHANGED <<accounts, script_bots, subscribers, channel_log, posted>>
    /\ RelayFrame

\* The time to run of a reserved job is over: the job is ready again.
Release ==
    /\ \/ \E i \in 1..Len(DiscordToEv) :
            /\ DiscordToEv[i].reserved
            /\ DiscordToEv' = [DiscordToEv EXCEPT ![i].reserved = FALSE]
            /\ UNCHANGED EvToDiscord
       \/ \E i \in 1..Len(EvToDiscord) :
            /\ EvToDiscord[i].reserved
            /\ EvToDiscord' = [EvToDiscord EXCEPT ![i].reserved = FALSE]
            /\ UNCHANGED DiscordToEv
    /\ UNCHANGED <<accounts, script_bots, subscribers, events, discord_log,
                   channel_log, relay_loop, posted>>
    /\ RelayFrame

NextRelay ==
    \/ CmdDiscord2Chan
    \/ CmdDiscord2ChanDelete
    \/ DiscordUserPosts
    \/ OnMessage
    \/ PlayerPosts
    \/ AtRepeat
    \/ Relay
    \/ Release

SpecRelay == InitRelay /\ [][NextRelay]_relay_vars

\* The Discord client keeps enqueuing and, while its loop runs, relaying;
\* the relay script keeps polling and reserved jobs time out.
SpecRelayFair ==
    /\ InitRelay
    /\ [][NextRelay]_relay_vars
    /\ WF_relay_vars(OnMessage)
    /\ WF_relay_vars(AtRepeat)
    /\ WF_relay_vars(Relay)
    /\ WF_relay_vars(Release)

----------------------------------------------------------------------------
\* The FeatureHandler (src/features.py).  unique and features are lists of
\* <<name, feature>>; a feature keeps its value and its "unique" entry, the
\* other entries being the defaults of add.

MaxFeatures == 2

FeatureNames == {"hair", "eyes"}
FeatureValues == {"red", "blue"}

\* The match dicts: {} and {"value": v}
FeatureMatches == UNION {[D -> FeatureValues] : D \in SUBSET {"value"}}

Handler == [unique |-> unique, features |-> features, attr |-> feature_attr]

unique_keys(h) == {h.unique[i][1] : i \in 1..Len(h.unique)}

\* seq without the places in D
Without(seq, D) ==
    LET keep == {i \in 1..Len(seq) : i \notin D}
    IN  [j \in 1..Cardinality(keep) |->
            seq[CHOOSE i \in keep : Cardinality({k \in keep : k < i}) = j - 1]]

\* FeatureHandler.save
save(h) == [h EXCEPT !.attr = h.unique \o h.features]

\* FeatureHandler.add(name, value, force=force, unique=is_unique)
FeatureHandler_add(h, name, value, force, is_unique) ==
    IF name \in unique_keys(h) /\ ~force THEN h      \* FeatureError
    ELSE LET feature == [value |-> value, unique |-> is_unique]
         IN  IF is_unique
             THEN IF name \in unique_keys(h)
                  THEN save([h EXCEPT !.unique =
                          [i \in 1..Len(h.unique) |->
                              IF h.unique[i][1] = name THEN <<name, feature>>
                              ELSE h.unique[i]]])
                  ELSE save([h EXCEPT !.unique = Append(@, <<name, feature>>)])
             ELSE save([h EXCEPT !.features = Append(@, <<name, feature>>)])

\* FeatureHandler.remove(name, match, distinct).  After the loop i is the
\* place of the last feature of the list.
FeatureHandler_remove(h, name, match, distinct) ==
    IF name \in unique_keys(h)
    THEN save([h EXCEPT !.unique =
                 Without(@, {i \in 1..Len(h.unique) : h.unique[i][1] = name})])
    ELSE LET matches == {i \in 1..Len(h.features) :
                            /\ h.features[i][1] = name
                            /\ \A match_key \in DOMAIN match :
                                  h.features[i][2][match_key] = match[match_key]}
             i == Len(h.features)
         IN  IF Cardinality(matches) > 1 /\ distinct THEN h      \* FeatureError
             ELSE IF matches = {} THEN h
             ELSE save([h EXCEPT !.features = Without(@, {i})])

\* FeatureHandler.clear
FeatureHandler_clear(h) == save([h EXCEPT !.unique = <<>>, !.features = <<>>])

FeatureReturned(h) ==
    /\ unique' = h.unique
    /\ features' = h.features
    /\ feature_attr' = h.attr
    /\ UNCHANGED <<vars, growth_vars, relay_vars>>

InitFeatures ==
    /\ clothing_list = <<>>
    /\ worn = [o \in Items |-> NoStyle]
    /\ covered_by = [o \in Items |-> None]
    /\ location = [o \in Items |-> "wearer"]
    /\ autocover = DEFAULT_AUTOCOVER_TYPES
    /\ GrowthUnused
    /\ RelayUnused
    /\ unique = <<>>
    /\ features = <<>>
    /\ feature_attr = <<>>

AddFeature ==
    \E name \in FeatureNames, value \in FeatureValues, force \in BOOLEAN,
       is_unique \in BOOLEAN :
        /\ is_unique \/ Len(features) < MaxFeatures
        /\ FeatureReturned(FeatureHandler_add(Handler, name, value, force, is_unique))

RemoveFeature ==
    \E name \in FeatureNames, match \in FeatureMatches, distinct \in BOOLEAN :
        FeatureReturned(FeatureHandler_remove(Handler, name, match, distinct))

ClearFeatures == FeatureReturned(FeatureHandler_clear(Handler))

NextFeatures ==
    \/ AddFeature
    \/ RemoveFeature
    \/ ClearFeatures

SpecFeatures == InitFeatures /\ [][NextFeatures]_feature_vars

----------------------------------------------------------------------------
\* Properties of the registry.

Worn == Range(clothing_list)
Covered(o) == covered_by[o] # None
GoodStyles == 1..WORNSTRING_MAX_LENGTH

C2_LimitsRespected ==
    /\ Len(clothing_list) <= CLOTHING_TOTAL_LIMIT
    /\ \A t \in DOMAIN CLOTHING_TYPE_LIMITS :
           Cardinality({o \in Worn : t \in tags[o]}) <= CLOTHING_TYPE_LIMITS[t]

\* C3: the covered_by of a worn item, when set, is an item of the worn list.
C3_CoveredByWorn ==
    \A i \in Worn : Covered(i) => covered_by[i] \in Worn

\* A worn item is covered while other items have been taken off and dropped
\* or given away.
C3_Witness ==
    /\ \E i \in Worn : Covered(i)
    /\ \E o \in Items : tags[o] # {} /\ location[o] = "room"
    /\ \E o \in Items : tags[o] # {} /\ location[o] = "friend"

\* C4 as stated: for every garment, add followed by remove gives back the
\* worn list there was before the add.
C4_RoundTripAnyGarment ==
    \A g \in Items, style \in Rhs :
        remove(add(Reg, g, style, TRUE).reg, g, TRUE).reg.list = clothing_list

\* C4, amended: for every garment that is not worn, add followed by remove
\* gives back the worn list there was before the add.
C4_RoundTripUnworn ==
    \A g \in Items \ Worn, style \in Rhs :
        remove(add(Reg, g, style, TRUE).reg, g, TRUE).reg.list = clothing_list

\* Items are worn, and adding an unworn one lengthens the list and covers
\* some of them.
C4_Witness ==
    /\ clothing_list # <<>>
    /\ \E g \in Items \ Worn :
           /\ Len(add(Reg, g, NoStyle, TRUE).reg.list) = Len(clothing_list) + 1
           /\ add(Reg, g, NoStyle, TRUE).to_cover # <<>>

\* C5: no item is twice in the worn list, and add of a worn item leaves the
\* list as it is.
C5_NoDuplicates ==
    /\ \A i, j \in 1..Len(clothing_list) :
           i # j => clothing_list[i] # clothing_list[j]
    /\ \A o \in Worn, style \in Rhs, quiet \in BOOLEAN :
           add(Reg, o, style, quiet).reg.list = clothing_list

\* Several items are worn and one of them, worn in a style, is adjusted by add.
C5_Witness ==
    /\ Len(clothing_list) >= 2
    /\ \E o \in Worn :
           worn[o] # NoStyle /\ add(Reg, o, worn[o], FALSE).message = "adjusts"

\* C6: wear, naming a worn item and giving a style of permitted length, sets
\* the item's style and leaves the worn list as it is.
C6_RewearAdjustsStyle ==
    \A o \in Worn, rhs \in GoodStyles :
        location[o] = "wearer" =>
            LET out == CmdWear_func(Reg, location, o, rhs)
            IN  out.reg.worn[o] = rhs /\ out.reg.list = clothing_list

\* C7: remove of a worn item takes it out of the list and keeps the order of
\* the rest, clears its style and covered_by, clears the covered_by of the
\* worn items it covered and of no other item.
C7_RemoveEffect ==
    \A o \in Worn :
        LET r == remove(Reg, o, FALSE).reg
        IN  /\ r.list = SelectSeq(clothing_list, LAMBDA x : x # o)
            /\ r.worn[o] = NoStyle
            /\ r.cov[o] = None
            /\ \A x \in Items \ {o} :
                   r.cov[x] = IF x \in Worn /\ covered_by[x] = o
                              THEN None ELSE covered_by[x]

\* A worn item covers another while a third is covered by something else.
C7_Witness ==
    \E o \in Worn :
        /\ \E x \in Worn : covered_by[x] = o
        /\ \E y \in Worn : Covered(y) /\ covered_by[y] # o

\* C8: can_remove returns False exactly for an item that is not worn or is
\* covered, and so True for a worn, uncovered item that covers others.
C8_CanRemove ==
    \A o \in Items :
        /\ can_remove(Reg, o).ret \in {"True", "False"}
        /\ can_remove(Reg, o).ret = "False" <=> (o \notin Worn \/ Covered(o))

\* A worn, uncovered item covers another item.
C8_Witness ==
    \E o \in Worn : ~Covered(o) /\ \E x \in Worn : covered_by[x] = o

\* C9: can_cover returns False when to_cover is covered, cover_with has no
\* clothing tag, cover_with's type cannot cover, the two are one item, or
\* cover_with is covered; and True otherwise.
C9_CanCover ==
    \A to_cover \in Items, cover_with \in Items :
        can_cover(Reg, to_cover, cover_with).ret =
            IF \/ Covered(to_cover)
               \/ tags[cover_with] = {}
               \/ tags[cover_with] \cap CLOTHING_NO_COVER_TYPES # {}
               \/ to_cover = cover_with
               \/ Covered(cover_with)
            THEN "False" ELSE "True"

AutoCoverSet(o) ==
    UNION {CLOTHING_AUTOCOVER_TYPES[k] : k \in tags[o] \cap DOMAIN CLOTHING_AUTOCOVER_TYPES}

\* C11: add of an item that is not worn covers with it every worn item that
\* was uncovered and whose type is in the item's auto-cover set, and leaves
\* the covered_by of every other item as it was.
C11_AutoCoverOnNewAdd ==
    \A o \in Items \ Worn, style \in Rhs, quiet \in BOOLEAN :
        LET r == add(Reg, o, style, quiet).reg
        IN  \A x \in Items :
                r.cov[x] = IF x \in Worn /\ ~Covered(x)
                              /\ tags[x] \cap AutoCoverSet(o) # {}
                           THEN o ELSE covered_by[x]

\* An unworn item would auto-cover a visible worn item of a type in its set
\* while another worn item of such a type is already covered by something.
C11_Witness ==
    \E o \in Items \ Worn :
        /\ \E x \in Worn : ~Covered(x) /\ tags[x] \cap AutoCoverSet(o) # {}
        /\ \E y \in Worn : Covered(y) /\ tags[y] \cap AutoCoverSet(o) # {}
        /\ \E z \in Worn : ~Covered(z) /\ tags[z] \cap AutoCoverSet(o) = {}

\* C12: add of a worn item sets that item's style and changes nothing else:
\* not the list, not any covered_by, not the style of another item.
C12_AdjustChangesStyleOnly ==
    \A o \in Worn, style \in Rhs, quiet \in BOOLEAN :
        LET r == add(Reg, o, style, quiet).reg
        IN  /\ r.list = clothing_list
            /\ r.cov = covered_by
            /\ r.worn = [worn EXCEPT ![o] = style]

\* A worn item has a visible worn item of a type in its auto-cover set.
C12_Witness ==
    \E o \in Worn :
        \E x \in Worn : ~Covered(x) /\ tags[x] \cap AutoCoverSet(o) # {}

\* C13: under every auto-cover table, no item is covered by itself.
C13_NoSelfCover ==
    \A o \in Items : covered_by[o] # o

\* C14: an accepted cover command leaves to_cover covered by cover_with; a
\* cover_with that was not worn is appended once to the worn list, add being
\* told to return no message, and the one message sent is the cover's own;
\* a cover_with that was worn leaves the list as it is.
C14_CoverAccepted ==
    \A a \in Items, b \in Items :
        LET out == CmdCover_func(Reg, location, a, b)
        IN  out.ret = "ok" =>
              /\ out.reg.cov[a] = b
              /\ out.room = 1 /\ out.msgs = 0
              /\ b \in Worn => out.reg.list = clothing_list
              /\ b \notin Worn =>
                    /\ out.reg.list = Append(clothing_list, b)
                    /\ add([Reg EXCEPT !.cov[a] = b], b, NoStyle, TRUE).message = None

\* A cover is accepted with a cover_with that is worn and another with a
\* cover_with that is not, the second one auto-covering a third item.
C14_Witness ==
    /\ \E a \in Worn, b \in Worn : CmdCover_func(Reg, location, a, b).ret = "ok"
    /\ \E a \in Worn, b \in Items \ Worn :
           /\ CmdCover_func(Reg, location, a, b).ret = "ok"
           /\ \E x \in Worn \ {a} :
                  ~Covered(x) /\ CmdCover_func(Reg, location, a, b).reg.cov[x] = b

\* C15: uncover of a worn, covered item clears its covered_by exactly when
\* the item covering it is uncovered; otherwise it changes nothing; it never
\* changes the list, a style, or the covered_by of another item.
C15_Uncover ==
    \A o \in Worn :
        (Covered(o) /\ location[o] = "wearer") =>
            LET out == CmdUncover_func(Reg, location, o)
            IN  /\ out.reg.cov[o] = None <=> ~Covered(covered_by[o])
                /\ Covered(covered_by[o]) => out.reg = Reg
                /\ out.reg.list = clothing_list
                /\ out.reg.worn = worn
                /\ out.loc = location
                /\ \A x \in Items \ {o} : out.reg.cov[x] = covered_by[x]

\* One worn item is covered by an uncovered item, another by a covered one.
C15_Witness ==
    /\ \E o \in Worn : Covered(o) /\ ~Covered(covered_by[o])
    /\ \E o \in Worn : Covered(o) /\ Covered(covered_by[o])

\* C16: remove, drop and give of a worn, covered item are rejected and leave
\* the registry and every location as they are.
C16_CoveredStays ==
    \A o \in Worn :
        Covered(o) =>
            /\ CmdRemove_func(Reg, location, o) = Rejected(Reg, location, 1)
            /\ CmdDrop_func(Reg, location, o) = Rejected(Reg, location, 1)
            /\ \A target \in Targets :
                   CmdGive_func(Reg, location, o, target) = Rejected(Reg, location, 1)

\* A worn item that is covered is in the wearer's inventory.
C16_Witness ==
    \E o \in Worn : Covered(o) /\ location[o] = "wearer"

\* C17: every item in the worn list is in the wearer's inventory, and every
\* item that covers a worn item is too.
C17_WornInInventory ==
    \A o \in Worn :
        /\ location[o] = "wearer"
        /\ Covered(o) => location[covered_by[o]] = "wearer"

\* The outcome of every wear, remove, cover, uncover, drop or give command
\* that can be typed in the current state.
CommandOutcomes ==
    {CmdWear_func(Reg, location, obj, rhs) : obj \in Args, rhs \in Rhs}
    \cup {CmdRemove_func(Reg, location, obj) : obj \in Args}
    \cup {CmdCover_func(Reg, location, a, b) : a \in Args, b \in Args}
    \cup {CmdUncover_func(Reg, location, obj) : obj \in Args}
    \cup {CmdDrop_func(Reg, location, obj) : obj \in Args}
    \cup {CmdGive_func(Reg, location, obj, target) : obj \in Args, target \in Targets}

\* C18: every command that is not carried out leaves the worn list, every
\* worn style, covered_by and location as they were and sends exactly one
\* message to the wearer.
C18_RejectionLeavesState ==
    \A out \in CommandOutcomes :
        out.ret # "ok" =>
            /\ out.reg = Reg
            /\ out.loc = location
            /\ out.msgs = 1

\* C19: for every choice of inventory items, can_add, can_remove and
\* can_cover finish with a boolean and never with an error.
C19_ChecksReturnBoolean ==
    LET Inventory == {o \in Items : location[o] = "wearer"}
        Boolean   == {"True", "False"}
    IN  \A a \in Inventory :
            /\ can_add(Reg, a).ret \in Boolean
            /\ can_remove(Reg, a).ret \in Boolean
            /\ \A b \in Inventory : can_cover(Reg, a, b).ret \in Boolean

\* The place of an object's type in the order list, or one past its end.
TypeRank(o) ==
    IF tags_get(o) \in Range(CLOTHING_TYPE_ORDER)
    THEN Index(CLOTHING_TYPE_ORDER, tags_get(o))
    ELSE Len(CLOTHING_TYPE_ORDER) + 1

\* C20: sorted get_outfit returns one entry per visible worn item, the
\* appearance of that item, none for a covered item; items of a type in the
\* order list come first in the order of that list, the others after them,
\* items of one group in worn-list order; the registry is not changed.
C20_GetOutfitSorted ==
    LET out == get_outfit(Reg, TRUE)
        ol  == obj_list(Reg, TRUE)
        vis == {o \in Worn : ~Covered(o)}
    IN  /\ out.reg = Reg
        /\ Len(out.appearance_list) = Cardinality(vis)
        /\ Len(ol) = Cardinality(vis)
        /\ Range(ol) = vis
        /\ \A i \in 1..Len(ol) : out.appearance_list[i] = appearance(Reg, ol[i])
        /\ \A i \in 1..Len(ol), j \in 1..Len(ol) :
               i < j =>
                   \/ TypeRank(ol[i]) < TypeRank(ol[j])
                   \/ /\ TypeRank(ol[i]) = TypeRank(ol[j])
                      /\ Index(clothing_list, ol[i]) < Index(clothing_list, ol[j])

\* A covered item is worn, and among the visible items one was put on before
\* another that sorts ahead of it, so that the outfit is not in worn order.
C20_Witness ==
    LET vis == visible(Reg)
    IN  /\ \E o \in Worn : Covered(o)
        /\ \E i \in 1..Len(vis), j \in 1..Len(vis) :
               i < j /\ TypeRank(vis[i]) > TypeRank(vis[j])
        /\ obj_list(Reg, TRUE) # vis

\* C21: after clear() the worn list is empty, every item that was worn has
\* no worn style and no covered_by, and no item at all is covered by an item
\* that is no longer worn.
C21_ClearEffect ==
    LET reg == clear(Reg)
    IN  /\ reg.list = <<>>
        /\ \A o \in Worn : reg.worn[o] = NoStyle /\ reg.cov[o] = None
        /\ \A o \in Items : reg.cov[o] # None => reg.cov[o] \in Range(reg.list)
        /\ \A o \in Items \ Worn : reg.worn[o] = worn[o]

\* Several items are worn, one with a style and one covered.
C21_Witness ==
    /\ Len(clothing_list) >= 3
    /\ \E o \in Worn : worn[o] # NoStyle
    /\ \E o \in Worn : Covered(o)

----------------------------------------------------------------------------
\* Properties of the GrowthHandler.

\* The handler after each call that can be made in the current state.
GrowthCalls ==
    {grow(Growth, force) : force \in BOOLEAN}
    \cup {GrowthHandler_add(Growth, stage, age, stage, force_add) :
            stage \in StageNames, age \in Ages, force_add \in BOOLEAN}
    \cup {GrowthHandler_remove(Growth, stage) : stage \in StageNames}

ReachedStages(g) == {i \in 1..Len(g.stages) : g.stages[i].age <= g.status.age}
LaterStages(g) == {i \in 1..Len(g.stages) : g.stages[i].age > g.status.age}

\* C23: when grow applies a stage, the current stage is a stage of the table
\* whose age is the greatest that does not exceed the object's age, and
\* next_age is the smallest stage age above the object's age if there is one.
C23_GrowPicksStage ==
    \A g \in GrowthCalls :
        g.applied =>
            /\ \E i \in ReachedStages(g) :
                  /\ g.stages[i].stage = g.status.stage
                  /\ \A j \in ReachedStages(g) : g.stages[j].age <= g.stages[i].age
            /\ LaterStages(g) # {} =>
                  /\ \E i \in LaterStages(g) : g.stages[i].age = g.status.next_age
                  /\ \A j \in LaterStages(g) : g.status.next_age <= g.stages[j].age

\* One call changes the stage with two stages of different ages reached and
\* a third still to come, another with one stage reached and one to come.
C23_Witness ==
    /\ \E g \in GrowthCalls :
           /\ g.applied
           /\ g.status.stage # growth_status.stage
           /\ Cardinality({g.stages[i].age : i \in ReachedStages(g)}) >= 2
           /\ LaterStages(g) # {}
    /\ \E g \in GrowthCalls :
           /\ g.applied
           /\ g.status.stage # growth_status.stage
           /\ ReachedStages(g) # {}
           /\ LaterStages(g) # {}

\* C24: the handler that __init__ leaves behind has a delayed grow pending.
C24_InitSchedules ==
    Len(GrowthHandler_init(interval, pre_grow).tasks) >= 1

\* C26: the current stage is None or the name of a stage in the table.
C26_CurrentInTable ==
    \/ growth_status.stage = None
    \/ \E i \in 1..Len(growth_stages) : growth_stages[i].stage = growth_status.stage

\* C27: the recorded age does not exceed the game time since the status was
\* created.
C27_AgeWithinLifetime ==
    growth_status.age <= lifetime

\* C28: at most one delayed grow task is pending.
C28_OnePendingTask ==
    Len(tasks) <= 1

\* The object is at the last stage of a table that is not empty.
AtLastStage ==
    IF growth_stages = <<>> THEN FALSE
    ELSE growth_status.stage = growth_stages[Len(growth_stages)].stage

\* C25: if from some time on there is a stage and at_pre_grow does not
\* refuse, then from some time on the object is at the last stage; and at the
\* last stage a grow that is not forced changes nothing and schedules nothing.
C25_ReachesLastStage ==
    /\ [](AtLastStage /\ pre_grow # "False" => grow(Growth, FALSE) = Growth)
    /\ <>[](growth_stages # <<>> /\ pre_grow # "False") => <>[]AtLastStage

\* The object has grown into the last of several stages as time went by, and
\* no task is pending any more.
C25_Witness ==
    /\ Len(growth_stages) >= 2
    /\ AtLastStage
    /\ growth_stages[Len(growth_stages)].age >= 1
    /\ lifetime >= 1
    /\ tasks = <<>>

----------------------------------------------------------------------------
\* Properties of the Discord relay.

\* A user has written message n in channel c while c was linked.
UserPosted(n, c) ==
    \E m \in discord_log :
        m.channel = c /\ m.author = "user" /\ m.content.id = n /\ m.linked

Delivered(n) ==
    \E e \in channel_log : e.relay /\ e.message.id = n

\* C22: a message a user posts in a linked Discord channel is in the end
\* delivered to the Evennia channel, as long as the channel stays linked.
C22_DiscordReachesEvennia ==
    \A n \in 1..MaxPosts, c \in DiscordChannels :
        (UserPosted(n, c) /\ Linked(c)) ~> (Delivered(n) \/ ~Linked(c))

\* C29: no job on EvToDiscord holds a message a bot delivered into the
\* Evennia channel, and no job on DiscordToEv holds a message the Discord
\* client posted itself.
C29_NoEcho ==
    /\ \A i \in 1..Len(EvToDiscord), e \in channel_log :
          e.relay => EvToDiscord[i].body[2] # at_pre_channel_msg(e.message, e.senders)
    /\ \A i \in 1..Len(DiscordToEv), m \in discord_log :
          m.author = "client" => DiscordToEv[i].body.txt # m.content

\* A bot has delivered a Discord message into the channel while another bot
\* was subscribed, and the client has been told of a message of its own.
C29_Witness ==
    /\ \E e \in channel_log : e.relay /\ Cardinality(subscribers) >= 2
    /\ \E m \in discord_log : m.author = "client" /\ m \notin events

----------------------------------------------------------------------------
\* Properties of the FeatureHandler.

\* The places of the non-unique features with key name that satisfy match.
Matching(name, match) ==
    {i \in 1..Len(features) :
        /\ features[i][1] = name
        /\ \A match_key \in DOMAIN match :
              features[i][2][match_key] = match[match_key]}

\* C30: remove(name, match) deletes only non-unique features whose key is
\* name and which satisfy match; the other features and the unique features
\* stay as they are, and when nothing matches the handler stays as it is.
C30_RemoveFrame ==
    \A name \in FeatureNames, match \in FeatureMatches, distinct \in BOOLEAN :
        LET after == FeatureHandler_remove(Handler, name, match, distinct)
        IN  /\ after.unique = unique
            /\ \E D \in SUBSET Matching(name, match) :
                  after.features = Without(features, D)
            /\ Matching(name, match) = {} => after = Handler

====
